---- MODULE Spec2Model ----
(***************************************************************************)
(* Model of the Normalizing Loader of data_migration.py: main() creates    *)
(* the tables and migrate() loads data.csv into the three tables           *)
(* car_brand, car_model and car_info in three phases, each one a batch of  *)
(* existence queries followed by one add_all/commit.                       *)
(*                                                                         *)
(* The store is the MySQL database behind `engine`; a run is one call of   *)
(* main().  Each phase is two steps of a run: the list comprehension that  *)
(* queries the store and stages the new objects, and the add_all/commit    *)
(* with the reload that follows it.  The store can raise at any step.      *)
(*                                                                         *)
(* Spec is the Loader run again and again, one run at a time, a phase      *)
(* being one step; SpecOverlap is two Loaders started against the same     *)
(* store, the queries and the commit of a phase being separate steps.      *)
(***************************************************************************)
EXTENDS Integers, Sequences, FiniteSets, TLC

VARIABLES
    brands,     \* table car_brand : set of rows
    models,     \* table car_model : set of rows
    infos,      \* table car_info  : set of rows
    pc,         \* pc[r]     : position of run r inside main()/migrate()
    hasCsv,     \* hasCsv[r] : "data.csv" in os.listdir() as run r saw it
    df,         \* df[r]     : the rows pd.read_csv gave run r
    brandCol,   \* brandCol[r] : df["brand_name"] after line 201
    modelCol,   \* modelCol[r] : df["model_name"] after line 238
    staged,     \* staged[r] : objects built by the comprehension, not yet added
    nruns,      \* number of runs started so far
    loaded      \* history: the target_car records inserted as listings so far

vars == <<brands, models, infos, pc, hasCsv, df, brandCol, modelCol, staged,
          nruns, loaded>>

store == <<brands, models, infos>>

(***************************************************************************)
(* Bounds of the model.                                                    *)
(***************************************************************************)
MaxRows == 2
MaxRuns == 2

(***************************************************************************)
(* Input values.  Prices are in hundredths, so 8599999 is 85999.99.        *)
(***************************************************************************)
ModelNameSeq == <<"Camry", "City">>    \* in ascending string order

Listing(brand, model, price) ==
    [brand_name |-> brand, model_name |-> model, price |-> price,
     manufactured_year |-> 2019, mileage |-> "10000 - 20000"]

\* The rows a data.csv is made of: two brands with a model of the same name,
\* a second model, and a price that is no single-precision number.
CsvRow == {Listing("Toyota", "Camry", 8500000), Listing("Toyota", "Camry", 8599999),
           Listing("Honda", "Camry", 8500000), Listing("Honda", "City", 8500000)}

Datasets == UNION {[1..n -> CsvRow] : n \in 1..MaxRows}

Runs == {1, 2}
LoneRun == {1}

\* --------------------------------------------------------------- helpers

Max(S) == CHOOSE x \in S : \A y \in S : y <= x

Range(s) == {s[i] : i \in DOMAIN s}

RECURSIVE Pow2(_)
Pow2(n) == IF n = 0 THEN 1 ELSE 2 * Pow2(n - 1)

(***************************************************************************)
(* car_price is Mapped[float]: a MySQL FLOAT column, IEEE single           *)
(* precision.  A price of c hundredths lies in [2^e, 2^(e+1)) and is       *)
(* stored as the nearest mant / 2^scale with 2^23 <= mant < 2^24, ties to  *)
(* even.  Defined for prices from 1.00 up to 2^24.                         *)
(***************************************************************************)
FloatExp(c) == CHOOSE e \in 0..23 : 100 * Pow2(e) <= c /\ c < 100 * Pow2(e + 1)

IsFloatExact(c) == (c * Pow2(23 - FloatExp(c))) % 100 = 0

ToFloat(c) ==
    LET s == 23 - FloatExp(c)
        n == c * Pow2(s)
        q == n \div 100
        rem == n % 100
        k == IF 2 * rem > 100 \/ (2 * rem = 100 /\ q % 2 = 1) THEN q + 1 ELSE q
    IN  IF k = Pow2(24) THEN [mant |-> Pow2(23), scale |-> s - 1]
                        ELSE [mant |-> k, scale |-> s]

(***************************************************************************)
(* WHERE car_price = <literal>: the column value widened to double against *)
(* the double nearest the literal; they are equal exactly when the literal *)
(* is itself a single-precision number and is the stored one.              *)
(***************************************************************************)
PriceMatches(stored, c) == IsFloatExact(c) /\ stored = ToFloat(c)

\* Series.unique(): the distinct values in order of first appearance.
RECURSIVE Unique(_)
Unique(s) ==
    IF s = <<>> THEN <<>>
    ELSE LET n == Len(s)
             front == Unique(SubSeq(s, 1, n - 1))
         IN  IF s[n] \in Range(front) THEN front ELSE Append(front, s[n])

\* A finite set of integers as an ascending sequence.
RECURSIVE Ascending(_)
Ascending(S) == IF S = {} THEN <<>> ELSE Append(Ascending(S \ {Max(S)}), Max(S))

\* session.query(CarBrand).all(): the rows in primary-key order.
AllBrands(table) ==
    LET ids == Ascending({b.car_brand_id : b \in table})
    IN  [i \in DOMAIN ids |-> CHOOSE b \in table : b.car_brand_id = ids[i]]

\* session.query(CarModel).all(): the rows in primary-key order.
AllModels(table) ==
    LET ids == Ascending({m.car_model_id : m \in table})
    IN  [i \in DOMAIN ids |-> CHOOSE m \in table : m.car_model_id = ids[i]]

\* dict([(name, id) for ...]): a later pair overwrites an earlier one.
DictOf(pairs) ==
    [k \in {p[1] : p \in Range(pairs)} |->
        pairs[Max({i \in DOMAIN pairs : pairs[i][1] = k})][2]]

\* Series.replace(dict): a value that is a key is replaced, any other is kept.
Replace(col, d) ==
    [i \in DOMAIN col |-> IF col[i] \in DOMAIN d THEN d[col[i]] ELSE col[i]]

\* The next value of an AUTO_INCREMENT primary key.
NextId(ids) == IF ids = {} THEN 1 ELSE Max(ids) + 1

\* ------------------------------------------------------ the three phases

Column(d, field) == [i \in DOMAIN d |-> d[i][field]]

ModelRank(name) == CHOOSE i \in DOMAIN ModelNameSeq : ModelNameSeq[i] = name

\* Sort order of the groupby keys: by brand id, then by model name.
PairBefore(p, q) ==
    \/ p[1] < q[1]
    \/ p[1] = q[1] /\ ModelRank(p[2]) <= ModelRank(q[2])

RECURSIVE SortPairs(_)
SortPairs(S) ==
    IF S = {} THEN <<>>
    ELSE LET first == CHOOSE p \in S : \A q \in S : PairBefore(p, q)
         IN  <<first>> \o SortPairs(S \ {first})

\* df.groupby(["brand_name", "model_name"]).size().reset_index()... :
\* the distinct (car_brand_id, car_model_name) records, sorted.
TargetModel(bcol, d) ==
    LET pairs == SortPairs({<<bcol[i], d[i].model_name>> : i \in DOMAIN d})
    IN  [i \in DOMAIN pairs |->
            [car_brand_id |-> pairs[i][1], car_model_name |-> pairs[i][2]]]

\* df[["model_name", "price", "manufactured_year", "mileage"]] renamed.
TargetCar(mcol, d) ==
    [i \in DOMAIN d |->
        [car_model_id |-> mcol[i], car_price |-> d[i].price,
         car_manufactured_year |-> d[i].manufactured_year,
         car_mileage |-> d[i].mileage]]

\* session.query(CarBrand).filter(CarBrand.car_brand_name == brand).all()
BrandQueryResult(table, brand) == {b \in table : b.car_brand_name = brand}

\* As ModelQueryResult, had the lookup been by the pair (name, brand id).
ModelQueryResultByPair(table, i) ==
    {m \in table : /\ m.car_model_name = i.car_model_name
                    /\ m.car_brand_id = i.car_brand_id}

\* session.query(CarModel).filter(CarModel.car_model_name == i["car_model_name"]).all()
ModelQueryResult(table, i) ==
    {m \in table : m.car_model_name = i.car_model_name}

\* session.query(CarInfo).filter_by(**i).all()
CarQueryResult(table, i) ==
    {c \in table : /\ c.car_model_id = i.car_model_id
                    /\ PriceMatches(c.car_price, i.car_price)
                    /\ c.car_manufactured_year = i.car_manufactured_year
                    /\ c.car_mileage = i.car_mileage}

\* As NewBrands, without the unique() of line 172: one object for each row.
NewBrandsOfEveryRow(table, d) ==
    LET IsNew(brand) == {b \in table : b.car_brand_name = brand} = {}
    IN  SelectSeq([i \in DOMAIN d |-> d[i].brand_name], IsNew)

\* The objects the comprehension of each phase builds.
NewBrands(table, d) ==
    LET IsNew(brand) == BrandQueryResult(table, brand) = {}
    IN  SelectSeq(Unique(Column(d, "brand_name")), IsNew)

NewModels(table, bcol, d) ==
    LET IsNew(i) == ModelQueryResult(table, i) = {}
    IN  SelectSeq(TargetModel(bcol, d), IsNew)

\* As NewCars, had each object been added and flushed before the next query:
\* a record is then found once an equal one has been staged before it.
NewCarsOneByOne(table, mcol, d) ==
    LET t == [i \in DOMAIN d |->
                [car_model_id |-> mcol[i], car_price |-> d[i].price,
                 car_manufactured_year |-> d[i].manufactured_year,
                 car_mileage |-> d[i].mileage]]
        Found(i) ==
            \/ \E c \in table :
                  /\ c.car_model_id = t[i].car_model_id
                  /\ IsFloatExact(t[i].car_price)
                  /\ c.car_price = ToFloat(t[i].car_price)
                  /\ c.car_manufactured_year = t[i].car_manufactured_year
                  /\ c.car_mileage = t[i].car_mileage
            \/ \E j \in 1..(i - 1) : t[j] = t[i] /\ IsFloatExact(t[i].car_price)
        kept == Ascending({i \in DOMAIN d : ~Found(i)})
    IN  [k \in DOMAIN kept |-> t[kept[k]]]

NewCars(table, mcol, d) ==
    LET IsNew(i) == CarQueryResult(table, i) = {}
    IN  SelectSeq(TargetCar(mcol, d), IsNew)

\* The rows an INSERT of the staged objects writes, keys in staging order.
BrandRows(table, objs) ==
    LET base == NextId({b.car_brand_id : b \in table})
    IN  {[car_brand_id |-> base + i - 1, car_brand_name |-> objs[i]] :
            i \in DOMAIN objs}

ModelRows(table, objs) ==
    LET base == NextId({m.car_model_id : m \in table})
    IN  {[car_model_id |-> base + i - 1,
          car_model_name |-> objs[i].car_model_name,
          car_brand_id |-> objs[i].car_brand_id] : i \in DOMAIN objs}

CarRows(table, objs) ==
    LET base == NextId({c.car_info_id : c \in table})
    IN  {[car_info_id |-> base + i - 1,
          car_model_id |-> objs[i].car_model_id,
          car_price |-> ToFloat(objs[i].car_price),
          car_manufactured_year |-> objs[i].car_manufactured_year,
          car_mileage |-> objs[i].car_mileage] : i \in DOMAIN objs}

\* As BrandUniqueOk, had car_brand_name not been declared unique.
BrandNotUnique(table, objs) == TRUE

\* car_brand_name is unique=True: the INSERT is rejected on a name held already.
BrandUniqueOk(table, objs) ==
    /\ \A i \in DOMAIN objs : \A b \in table : b.car_brand_name # objs[i]
    /\ \A i, j \in DOMAIN objs : objs[i] = objs[j] => i = j

\* UniqueConstraint("car_model_name", "car_model_id"): the INSERT is rejected
\* on a (name, id) pair held already.
ModelUniqueOk(table, rows) ==
    \A x \in rows : \A y \in table \cup (rows \ {x}) :
        ~(x.car_model_name = y.car_model_name /\ x.car_model_id = y.car_model_id)

\* ForeignKey("car_brand.car_brand_id"): the INSERT is rejected on a brand id
\* that is no row of car_brand.
ModelForeignKeyOk(table, objs) ==
    \A i \in DOMAIN objs : \E b \in table : b.car_brand_id = objs[i].car_brand_id

\* ForeignKey("car_model.car_model_id"), likewise.
CarForeignKeyOk(table, objs) ==
    \A i \in DOMAIN objs : \E m \in table : m.car_model_id = objs[i].car_model_id

\* name -> id of every row of the table, as lines 197-199 and 234-236 build it.
BrandDict(table) ==
    LET all == AllBrands(table)
    IN  DictOf([i \in DOMAIN all |-> <<all[i].car_brand_name, all[i].car_brand_id>>])

\* As ModelDict, with the key of line 199 left in line 236: name -> brand id.
ModelDictOfBrandIds(table) ==
    LET ids == Ascending({m.car_model_id : m \in table})
        all == [i \in DOMAIN ids |-> CHOOSE m \in table : m.car_model_id = ids[i]]
    IN  [n \in {m.car_model_name : m \in table} |->
            all[Max({i \in DOMAIN all : all[i].car_model_name = n})].car_brand_id]

ModelDict(table) ==
    LET all == AllModels(table)
    IN  DictOf([i \in DOMAIN all |-> <<all[i].car_model_name, all[i].car_model_id>>])

\* As RolledBack, had every INSERT been committed on its own.
NotRolledBack(table, rows) == table \cup rows

\* What the store keeps of a batch when the phase raises: the session is
\* closed by the with block and its transaction rolled back.
RolledBack(table, rows) == table

\* How a run ends: by returning from migrate(), by an error of the store
\* raised in one of the phases, or by an INSERT one of the constraints rejects.
Failed == {"brand_failed", "model_failed", "car_failed"}
Rejected == {"brand_rejected", "model_rejected", "car_rejected"}
Ended == {"done"} \cup Failed \cup Rejected

RaisedIn(at) ==
    CASE at \in {"brand_query", "brand_commit"} -> "brand_failed"
      [] at \in {"model_query", "model_commit"} -> "model_failed"
      [] at \in {"car_query", "car_commit"} -> "car_failed"

\* The locals of migrate() are gone once it is left.
Leave(r) ==
    /\ df' = [df EXCEPT ![r] = <<>>]
    /\ brandCol' = [brandCol EXCEPT ![r] = <<>>]
    /\ modelCol' = [modelCol EXCEPT ![r] = <<>>]
    /\ staged' = [staged EXCEPT ![r] = <<>>]

\* ---------------------------------------------------------------- actions

Init ==
    /\ brands = {} /\ models = {} /\ infos = {}
    /\ pc = [r \in Runs |-> "idle"]
    /\ hasCsv = [r \in Runs |-> FALSE]
    /\ df = [r \in Runs |-> <<>>]
    /\ brandCol = [r \in Runs |-> <<>>]
    /\ modelCol = [r \in Runs |-> <<>>]
    /\ staged = [r \in Runs |-> <<>>]
    /\ nruns = 0
    /\ loaded = {}

\* As Enter, without the test of line 161: read_csv raises on the missing file.
EnterUnchecked(r, present, data) ==
    /\ nruns' = nruns + 1
    /\ hasCsv' = [hasCsv EXCEPT ![r] = present]
    /\ df' = [df EXCEPT ![r] = IF present THEN data ELSE <<>>]
    /\ pc' = [pc EXCEPT ![r] = IF present THEN "brand_query" ELSE "brand_failed"]
    /\ brandCol' = [brandCol EXCEPT ![r] = <<>>]
    /\ modelCol' = [modelCol EXCEPT ![r] = <<>>]
    /\ staged' = [staged EXCEPT ![r] = <<>>]
    /\ UNCHANGED <<store, loaded>>

\* main(): create_table() finds or creates the tables, then migrate() looks
\* for data.csv and reads it (lines 160-169, 261-264).
Enter(r, present, data) ==
    /\ nruns' = nruns + 1
    /\ hasCsv' = [hasCsv EXCEPT ![r] = present]
    /\ df' = [df EXCEPT ![r] = IF present THEN data ELSE <<>>]
    /\ pc' = [pc EXCEPT ![r] = IF present THEN "brand_query" ELSE "done"]
    /\ brandCol' = [brandCol EXCEPT ![r] = <<>>]
    /\ modelCol' = [modelCol EXCEPT ![r] = <<>>]
    /\ staged' = [staged EXCEPT ![r] = <<>>]
    /\ UNCHANGED <<store, loaded>>

\* The script is run, for the first time or again after the run before it ended.
Main(r, present, data) ==
    /\ pc[r] \in {"idle"} \cup Ended
    /\ nruns < MaxRuns
    /\ Enter(r, present, data)

\* The script is started once on each of two hosts.
Launch(r, present, data) ==
    /\ pc[r] = "idle"
    /\ Enter(r, present, data)

\* lines 183-201: add_all and commit of the staged brands, the reload of all
\* brands and the rewrite of the brand column.
CommitBrands(r, objs) ==
    /\ IF BrandUniqueOk(brands, objs)
       THEN /\ brands' = brands \cup BrandRows(brands, objs)
            /\ brandCol' = [brandCol EXCEPT ![r] =
                    Replace(Column(df[r], "brand_name"), BrandDict(brands'))]
            /\ pc' = [pc EXCEPT ![r] = "model_query"]
            /\ staged' = [staged EXCEPT ![r] = <<>>]
            /\ UNCHANGED <<df, modelCol>>
       ELSE /\ brands' = RolledBack(brands, BrandRows(brands, objs))
            /\ pc' = [pc EXCEPT ![r] = "brand_rejected"]
            /\ Leave(r)
    /\ UNCHANGED <<models, infos, hasCsv, nruns, loaded>>

\* lines 220-238: the same for the staged models.
CommitModels(r, objs) ==
    /\ IF /\ ModelForeignKeyOk(brands, objs)
          /\ ModelUniqueOk(models, ModelRows(models, objs))
       THEN /\ models' = models \cup ModelRows(models, objs)
            /\ modelCol' = [modelCol EXCEPT ![r] =
                    Replace(Column(df[r], "model_name"), ModelDict(models'))]
            /\ pc' = [pc EXCEPT ![r] = "car_query"]
            /\ staged' = [staged EXCEPT ![r] = <<>>]
            /\ UNCHANGED <<df, brandCol>>
       ELSE /\ models' = RolledBack(models, ModelRows(models, objs))
            /\ pc' = [pc EXCEPT ![r] = "model_rejected"]
            /\ Leave(r)
    /\ UNCHANGED <<brands, infos, hasCsv, nruns, loaded>>

\* lines 251-258: add_all and commit of the staged listings.
CommitCars(r, objs) ==
    /\ IF CarForeignKeyOk(models, objs)
       THEN /\ infos' = infos \cup CarRows(infos, objs)
            /\ pc' = [pc EXCEPT ![r] = "done"]
            /\ loaded' = loaded \cup Range(objs)
       ELSE /\ infos' = RolledBack(infos, CarRows(infos, objs))
            /\ pc' = [pc EXCEPT ![r] = "car_rejected"]
            /\ UNCHANGED loaded
    /\ Leave(r)
    /\ UNCHANGED <<brands, models, hasCsv, nruns>>

\* A phase of a run that no other run overlaps: lines 172-201, 202-238, 239-258.
BrandPhase(r) ==
    /\ pc[r] = "brand_query"
    /\ CommitBrands(r, NewBrands(brands, df[r]))

ModelPhase(r) ==
    /\ pc[r] = "model_query"
    /\ CommitModels(r, NewModels(models, brandCol[r], df[r]))

CarPhase(r) ==
    /\ pc[r] = "car_query"
    /\ CommitCars(r, NewCars(infos, modelCol[r], df[r]))

\* The same phases in two steps each, for runs that overlap: the comprehension
\* with its queries (lines 175-181, 212-218, 245-249), then the commit.
BrandQuery(r) ==
    /\ pc[r] = "brand_query"
    /\ staged' = [staged EXCEPT ![r] = NewBrands(brands, df[r])]
    /\ pc' = [pc EXCEPT ![r] = "brand_commit"]
    /\ UNCHANGED <<store, hasCsv, df, brandCol, modelCol, nruns, loaded>>

BrandCommit(r) ==
    /\ pc[r] = "brand_commit"
    /\ CommitBrands(r, staged[r])

ModelQuery(r) ==
    /\ pc[r] = "model_query"
    /\ staged' = [staged EXCEPT ![r] = NewModels(models, brandCol[r], df[r])]
    /\ pc' = [pc EXCEPT ![r] = "model_commit"]
    /\ UNCHANGED <<store, hasCsv, df, brandCol, modelCol, nruns, loaded>>

ModelCommit(r) ==
    /\ pc[r] = "model_commit"
    /\ CommitModels(r, staged[r])

CarQuery(r) ==
    /\ pc[r] = "car_query"
    /\ staged' = [staged EXCEPT ![r] = NewCars(infos, modelCol[r], df[r])]
    /\ pc' = [pc EXCEPT ![r] = "car_commit"]
    /\ UNCHANGED <<store, hasCsv, df, brandCol, modelCol, nruns, loaded>>

CarCommit(r) ==
    /\ pc[r] = "car_commit"
    /\ CommitCars(r, staged[r])

\* The store raises inside a phase, at a query, an INSERT or the COMMIT: the
\* exception leaves migrate(), the with block closes the session and the
\* rows the open transaction wrote, if any, are rolled back.
WrittenBy(r) ==
    CASE pc[r] = "brand_query" -> BrandRows(brands, NewBrands(brands, df[r]))
      [] pc[r] = "model_query" ->
            ModelRows(models, NewModels(models, brandCol[r], df[r]))
      [] pc[r] = "car_query" -> CarRows(infos, NewCars(infos, modelCol[r], df[r]))

Abort(r, rows) ==
    /\ brands' = (IF RaisedIn(pc[r]) = "brand_failed"
                     THEN RolledBack(brands, rows) ELSE brands)
    /\ models' = (IF RaisedIn(pc[r]) = "model_failed"
                     THEN RolledBack(models, rows) ELSE models)
    /\ infos' = (IF RaisedIn(pc[r]) = "car_failed"
                    THEN RolledBack(infos, rows) ELSE infos)
    /\ pc' = [pc EXCEPT ![r] = RaisedIn(pc[r])]
    /\ Leave(r)
    /\ UNCHANGED <<hasCsv, nruns, loaded>>

\* ... anywhere in a phase no other run overlaps,
PhaseFailure(r) ==
    /\ pc[r] \in {"brand_query", "model_query", "car_query"}
    /\ Abort(r, WrittenBy(r))

\* ... during the queries of the comprehension, when nothing is written yet,
QueryFailure(r) ==
    /\ pc[r] \in {"brand_query", "model_query", "car_query"}
    /\ Abort(r, {})

\* ... or during add_all/commit.
CommitFailure(r) ==
    /\ pc[r] \in {"brand_commit", "model_commit", "car_commit"}
    /\ Abort(r, CASE pc[r] = "brand_commit" -> BrandRows(brands, staged[r])
                  [] pc[r] = "model_commit" -> ModelRows(models, staged[r])
                  [] pc[r] = "car_commit" -> CarRows(infos, staged[r]))

\* One Loader at a time: every run ends before the next one starts.
Next ==
    \E r \in LoneRun :
        \/ Main(r, FALSE, <<>>)
        \/ \E data \in Datasets : Main(r, TRUE, data)
        \/ BrandPhase(r)
        \/ ModelPhase(r)
        \/ CarPhase(r)
        \/ PhaseFailure(r)

Spec == Init /\ [][Next]_vars

\* Two Loaders started against the same store, their steps interleaved.
NextOverlap ==
    \E r \in Runs :
        \/ Launch(r, FALSE, <<>>)
        \/ \E data \in Datasets : Launch(r, TRUE, data)
        \/ BrandQuery(r)
        \/ BrandCommit(r)
        \/ ModelQuery(r)
        \/ ModelCommit(r)
        \/ CarQuery(r)
        \/ CarCommit(r)
        \/ QueryFailure(r)
        \/ CommitFailure(r)

SpecOverlap == Init /\ [][NextOverlap]_vars


\* ------------------------------------------------------------- properties

Names(table, field) == {x[field] : x \in table}

\* A Listing row holds the record t of target_car: equal on all four fields.
HoldsEqual(table, t) ==
    \E c \in table : /\ c.car_model_id = t.car_model_id
                      /\ IsFloatExact(t.car_price) /\ c.car_price = ToFloat(t.car_price)
                      /\ c.car_manufactured_year = t.car_manufactured_year
                      /\ c.car_mileage = t.car_mileage

\* A Listing row was written from the record t of target_car.
WrittenFrom(c, t) ==
    /\ c.car_model_id = t.car_model_id
    /\ c.car_price = ToFloat(t.car_price)
    /\ c.car_manufactured_year = t.car_manufactured_year
    /\ c.car_mileage = t.car_mileage

BrandPhaseDone(r) == pc[r] = "brand_query" /\ pc'[r] = "model_query"
ModelPhaseDone(r) == pc[r] = "model_query" /\ pc'[r] = "car_query"
CarPhaseDone(r) == pc[r] = "car_query" /\ pc'[r] = "done"

\* What a run of data.csv = d stages against the tables bt, mt, it: nothing
\* in any of its three phases.
RunStagesNothing(bt, mt, it, d) ==
    IF NewBrands(bt, d) # <<>> THEN FALSE
    ELSE LET bcol == Replace(Column(d, "brand_name"), BrandDict(bt))
         IN  IF NewModels(mt, bcol, d) # <<>> THEN FALSE
             ELSE NewCars(it, Replace(Column(d, "model_name"), ModelDict(mt)), d) = <<>>

\* C1: a run that returns normally leaves a store in which running migrate()
\* again on the same data.csv inserts no row in any of the three phases, so
\* the row counts after two runs are those after one.
C1_Idempotent ==
    [][\A r \in LoneRun :
          CarPhaseDone(r) => RunStagesNothing(brands', models', infos', df[r])]_vars

\* C2: with one Loader at a time no two Brand rows have the same name, every
\* brand name of the input has its row once the brand phase is over, and the
\* unique constraint never has to reject the Loader's insert.
C2_BrandNamesUnique ==
    /\ \A a, b \in brands : a.car_brand_name = b.car_brand_name => a = b
    /\ \A r \in LoneRun :
          /\ pc[r] # "brand_rejected"
          /\ pc[r] \in {"model_query", "car_query"} =>
                \A i \in DOMAIN df[r] :
                    df[r][i].brand_name \in Names(brands, "car_brand_name")

\* A second run whose two rows name the same brand has ended its brand phase.
C2_Witness ==
    \E r \in LoneRun :
        /\ pc[r] = "model_query" /\ nruns = 2
        /\ Len(df[r]) = 2 /\ df[r][1].brand_name = df[r][2].brand_name
        /\ Cardinality(brands) = 2

\* C3: every Listing row's car_model_id is the id of a Model row and every
\* Model row's car_brand_id is the id of a Brand row, in every state, also
\* after a phase has failed; the ids the Loader writes are ids it has read,
\* so that neither foreign key ever rejects its insert.
C3_ReferentialIntegrity ==
    /\ \A c \in infos : c.car_model_id \in Names(models, "car_model_id")
    /\ \A m \in models : m.car_brand_id \in Names(brands, "car_brand_id")
    /\ \A r \in LoneRun : pc[r] \notin {"model_rejected", "car_rejected"}

\* A second run has failed in its listing phase, after its model phase
\* inserted, with listings of the first run in the store.
C3_Witness ==
    \E r \in LoneRun :
        /\ pc[r] = "car_failed" /\ nruns = 2
        /\ Cardinality(models) >= 2 /\ infos # {}

\* C4: in the listing phase a row is skipped exactly when the store holds a
\* Listing equal to it on all four fields, and a row that a listing phase
\* before has inserted already produces no new Listing.
C4_ExactMatchDedup ==
    [][\A r \in LoneRun :
          CarPhaseDone(r) =>
            \A i \in DOMAIN df[r] :
                LET t == TargetCar(modelCol[r], df[r])[i]
                    inserted == \E c \in infos' \ infos : WrittenFrom(c, t)
                IN  /\ inserted <=> ~HoldsEqual(infos, t)
                    /\ t \in loaded => ~inserted]_vars

\* C5: the first run, on the empty store, leaves for every input row a
\* Listing with its price, year and mileage, attached to a Model of its model
\* name that belongs to the Brand of its brand name.
C5_EndToEnd ==
    [][\A r \in LoneRun :
          (nruns = 1 /\ CarPhaseDone(r)) =>
            \A i \in DOMAIN df[r] :
                \E c \in infos', m \in models', b \in brands' :
                    /\ c.car_price = ToFloat(df[r][i].price)
                    /\ c.car_manufactured_year = df[r][i].manufactured_year
                    /\ c.car_mileage = df[r][i].mileage
                    /\ c.car_model_id = m.car_model_id
                    /\ m.car_model_name = df[r][i].model_name
                    /\ m.car_brand_id = b.car_brand_id
                    /\ b.car_brand_name = df[r][i].brand_name]_vars

\* C6: a run that finds no data.csv returns from migrate() at once and
\* changes no row of the three tables.
C6_MissingInput ==
    [][\A r \in LoneRun :
          (nruns' = nruns + 1 /\ ~hasCsv'[r]) =>
            /\ pc'[r] = "done"
            /\ brands' = brands /\ models' = models /\ infos' = infos]_vars

\* A run without data.csv has returned, on a store an earlier run filled.
C6_Witness ==
    \E r \in LoneRun :
        pc[r] = "done" /\ ~hasCsv[r] /\ nruns = 2 /\ infos # {}

\* C7: the step in which a phase fails leaves the three tables as they were
\* before it (nothing of the phase is kept, what earlier phases committed
\* stays), and the run does nothing more: the next step is a new run.
C7_PhaseAtomic ==
    [][\A r \in LoneRun :
          /\ (pc[r] \notin Ended /\ pc'[r] \in Failed) =>
                brands' = brands /\ models' = models /\ infos' = infos
          /\ pc[r] \in Failed =>
                /\ nruns' = nruns + 1
                /\ brands' = brands /\ models' = models /\ infos' = infos]_vars

\* The first run failed in its listing phase: its brands and models are kept.
C7_Witness ==
    \E r \in LoneRun :
        /\ pc[r] = "car_failed" /\ nruns = 1
        /\ brands # {} /\ models # {} /\ infos = {}

\* C8: the model phase inserts a Model row for a (brand id, model name) pair
\* of the input exactly when no Model row of that name was in the store,
\* whatever its brand; every row of the input is then given the id of a Model
\* of its model name, an existing one where the name was there, and the
\* listing phase attaches the Listings to these ids.
C8_ModelLookupByName ==
    [][\A r \in LoneRun :
          /\ ModelPhaseDone(r) =>
                \A i \in DOMAIN df[r] :
                    LET name == df[r][i].model_name
                        known == name \in Names(models, "car_model_name")
                    IN  /\ (\E m \in models' \ models :
                                /\ m.car_model_name = name
                                /\ m.car_brand_id = brandCol[r][i]) <=> ~known
                        /\ \E m \in models' : /\ m.car_model_id = modelCol'[r][i]
                                                /\ m.car_model_name = name
                        /\ known => modelCol'[r][i] \in Names(models, "car_model_id")
          /\ CarPhaseDone(r) =>
                \A c \in infos' \ infos :
                    \E i \in DOMAIN df[r] : c.car_model_id = modelCol[r][i]]_vars

\* A second run is about to attach a row to the Model an earlier run made
\* for another brand.
C8_Witness ==
    \E r \in LoneRun :
        /\ pc[r] = "car_query" /\ nruns = 2 /\ Cardinality(models) = 1
        /\ \E i \in DOMAIN df[r] :
              \E m \in models : /\ m.car_model_id = modelCol[r][i]
                                 /\ m.car_brand_id # brandCol[r][i]

\* C9, as stated: of two overlapping runs that both found a brand name absent
\* both insert it: a brand commit that the store does not fail inserts a row
\* for every staged name.
C9_BothInsertBrand ==
    [][\A r \in Runs :
          (pc[r] = "brand_commit" /\ pc'[r] \notin {"brand_commit", "brand_failed"}) =>
            \A i \in DOMAIN staged[r] :
                \E b \in brands' \ brands : b.car_brand_name = staged[r][i]]_vars

\* C9, amended: with two runs overlapping no two Brand rows have the same
\* name either: the unique constraint rejects the later of the two inserts.
C9_BrandNamesUniqueOverlap ==
    \A a, b \in brands :
        a.car_brand_name = b.car_brand_name => a.car_brand_id = b.car_brand_id

\* Both runs found a model name absent and both inserted it for the same brand.
C9_Witness ==
    \E m1, m2 \in models :
        /\ m1.car_model_id # m2.car_model_id
        /\ m1.car_model_name = m2.car_model_name
        /\ m1.car_brand_id = m2.car_brand_id

\* C10: every existence check of a phase sees the store as it was when the
\* phase began: the model phase inserts one row for each distinct pair whose
\* name was absent, the listing phase one row for each input row, repeated
\* rows counted each, whose four fields no Listing held.
C10_StageThenInsert ==
    [][\A r \in LoneRun :
          /\ ModelPhaseDone(r) =>
                Cardinality(models') - Cardinality(models) =
                    Cardinality({p \in {<<brandCol[r][i], df[r][i].model_name>> :
                                            i \in DOMAIN df[r]} :
                                    p[2] \notin Names(models, "car_model_name")})
          /\ CarPhaseDone(r) =>
                Cardinality(infos') - Cardinality(infos) =
                    Cardinality({i \in DOMAIN df[r] :
                        ~HoldsEqual(infos, TargetCar(modelCol[r], df[r])[i])})]_vars

\* The first run inserted two Listings equal on all four fields.
C10_Witness ==
    /\ nruns = 1
    /\ \E c1, c2 \in infos :
          /\ c1.car_info_id # c2.car_info_id
          /\ c1.car_model_id = c2.car_model_id
          /\ c1.car_price = c2.car_price
          /\ c1.car_manufactured_year = c2.car_manufactured_year
          /\ c1.car_mileage = c2.car_mileage

====
